---- MODULE Spec2Model ----
(***************************************************************************)
(* Model of the sysmon agent driver (src/main.rs): option handling,        *)
(* configuration loading (load_configs / load_config / load_section /      *)
(* load_instance), plugin setup, creation of the Poller and Updater loops  *)
(* and the process exit status, together with the scheduler, the two       *)
(* periodic tasks and the worker pool of the sysmon library that the       *)
(* driver starts.                                                          *)
(***************************************************************************)
EXTENDS Integers, Sequences, FiniteSets, TLC

\* ---------------------------------------------------------------- bounds
MaxFiles == 2
MaxSections == 2
MaxRounds == 2
PoolInstances == 3

\* ------------------------------------------------------------ input space
\* the paths given with --config, by position on the command line
Paths == <<"a.toml", "b.toml", "c.toml", "d.toml">>

\* the keys of the top-level table of one file, in iteration order
SectionKeys == <<"alpha", "beta", "gamma", "delta">>

\* values of the `type` field: tokens of a "kind:type" string
TypeStrings ==
    { <<"sensor", ":", "cpu">>, <<"sensor", ":", "memory">>,
      <<"sensor", ":", "disk">>, <<"bogus">> }

\* the values one section of a configuration file can have
Sections ==
    { [shape |-> s, type |-> <<>>, fieldsOk |-> FALSE] :
          s \in {"nottable", "notype", "typenotstring"} }
    \cup { [shape |-> "table", type |-> ty, fieldsOk |-> TRUE] : ty \in TypeStrings }
    \cup { [shape |-> "table", type |-> ty, fieldsOk |-> FALSE] :
          ty \in { <<"sensor", ":", "cpu">>, <<"sensor", ":", "memory">> } }

SectionLists == UNION { [1..n -> Sections] : n \in 0..MaxSections }

\* what the file system and the toml parser make of one path
ConfigFiles ==
    { [state |-> st, sections |-> <<>>] : st \in {"noopen", "noread", "noparse"} }
    \cup { [state |-> "ok", sections |-> ss] : ss \in SectionLists }

RECURSIVE TotalSections(_)
TotalSections(fs) ==
    IF fs = <<>> THEN 0 ELSE Len(Head(fs).sections) + TotalSections(Tail(fs))

ConfigLists ==
    { fs \in UNION { [1..n -> ConfigFiles] : n \in 0..MaxFiles } :
          TotalSections(fs) <= MaxSections }

\* a section from which the constructor of sensor:cpu or sensor:memory succeeds
Sensor(name) == [shape |-> "table", type |-> <<"sensor", ":", name>>, fieldsOk |-> TRUE]

\* command lines for the progress of the loops: no plugin, one plugin, two
\* plugins in one file or in two, and one file that does not parse
LiveConfigs ==
    { <<>>,
      <<[state |-> "ok", sections |-> <<Sensor("cpu")>>]>>,
      <<[state |-> "ok", sections |-> <<Sensor("cpu"), Sensor("memory")>>]>>,
      <<[state |-> "ok", sections |-> <<Sensor("cpu")>>],
        [state |-> "ok", sections |-> <<Sensor("memory")>>]>>,
      <<[state |-> "noparse", sections |-> <<>>]>> }

\* command lines for the load on the pool: one file of PoolInstances sections
PoolConfigs ==
    { <<[state |-> "ok",
         sections |-> [i \in 1..PoolInstances |->
                          Sensor(IF i % 2 = 1 THEN "cpu" ELSE "memory")]]>> }

Tasks == {"Poller", "Updater"}

\* ------------------------------------------------------------------ state
VARIABLES
    opts,        \* outcome of opts.parse(&args[1..]): "err", "help" or "ok"
    files,       \* the files named by --config, in order
    pc,          \* position of the main thread in main/run
    fileIdx,     \* load_configs: index of the file being loaded
    secIdx,      \* load_config: index of the section being loaded
    instances,   \* load_config: plugins constructed from the current file
    loaded,      \* load_configs: plugins constructed so far
    setupIdx,    \* run: index of the plugin being set up
    bound,       \* run: the instances produced by setup
    err,         \* the error chain run() returned, outermost context first
    exitStatus,  \* the status passed to process::exit, -1 while running
    log,         \* startup events in the order they happened
    loop,        \* per task: "none", "armed", "firing" or "failed"
    round,       \* per task: number of rounds fired
    pool,        \* units of work submitted to the worker pool
    report       \* per task: per-instance results of the round just completed

vars == <<opts, files, pc, fileIdx, secIdx, instances, loaded, setupIdx, bound,
          err, exitStatus, log, loop, round, pool, report>>

startupVars == <<fileIdx, secIdx, instances, loaded, setupIdx, bound>>
schedVars == <<loop, round, pool, report>>

\* ------------------------------------------------------- program constants
\* a pool with a single worker
PoolOfOne == 4 - 3

\* a pool with two workers for every configured plugin
PoolPerPlugin == 2 * Len(bound)

\* CpuPool::new(4)
PoolSize == 4

\* --------------------------------------------------- registry and parsing
\* the kind named by the first token of a plugin key
KindOf(word) == IF word = "sensor" THEN "Sensor" ELSE "Unknown"

\* parse_plugin_key(..).to_full_result(): a "kind:type" token
parse_plugin_key(s) ==
    IF Len(s) = 3 /\ s[2] = ":" /\ KindOf(s[1]) # "Unknown"
    THEN [ok |-> TRUE, key |-> [plugin_kind |-> KindOf(s[1]), plugin_type |-> s[3]]]
    ELSE [ok |-> FALSE, key |-> [plugin_kind |-> "Unknown", plugin_type |-> ""]]

\* sysmon::plugins::load_plugins(): (kind, type) -> constructor
PluginRegistry ==
    (<<"Sensor", "cpu">> :> "cpu_entry") @@ (<<"Sensor", "memory">> :> "memory_entry")

\* a constructor applied to a key and a section
Entry(e, plugin_key, section) ==
    IF section.fieldsOk
    THEN [ok |-> TRUE,
          plugin |-> [entry |-> e, key |-> plugin_key, section |-> section],
          err |-> <<>>]
    ELSE [ok |-> FALSE, plugin |-> <<>>, err |-> <<[kind |-> "Construct"]>>]

Failure(e, ops) == [ok |-> FALSE, plugin |-> <<>>, err |-> e, ops |-> ops]

\* a missing registry entry falls back to the first registered constructor
load_instance_fallback(plugins, plugin_type, section) ==
    LET parsed == parse_plugin_key(plugin_type)
        plugin_key == parsed.key
        key == <<plugin_key.plugin_kind, plugin_key.plugin_type>>
        found == IF key \in DOMAIN plugins THEN key ELSE <<"Sensor", "cpu">>
    IN  IF ~parsed.ok
        THEN Failure(<<[kind |-> "PluginKeyParse"]>>, <<[op |-> "parse_key"]>>)
        ELSE LET r == Entry(plugins[found], plugin_key, section)
             IN  [ok |-> r.ok, plugin |-> r.plugin, err |-> r.err,
                  ops |-> <<[op |-> "parse_key"], [op |-> "lookup", key |-> key],
                            [op |-> "construct", entry |-> plugins[found],
                             key |-> plugin_key, section |-> section]>>]

\* load_instance: parse the key, look the constructor up, call it
load_instance(plugins, plugin_type, section) ==
    LET parsed == parse_plugin_key(plugin_type)
        plugin_key == parsed.key
        key == <<plugin_key.plugin_kind, plugin_key.plugin_type>>
    IN  IF ~parsed.ok
        THEN Failure(<<[kind |-> "PluginKeyParse"]>>, <<[op |-> "parse_key"]>>)
        ELSE IF key \notin DOMAIN plugins
        THEN Failure(<<[kind |-> "MissingPlugin", key |-> plugin_key]>>,
                     <<[op |-> "parse_key"], [op |-> "lookup", key |-> key]>>)
        ELSE LET r == Entry(plugins[key], plugin_key, section)
             IN  [ok |-> r.ok, plugin |-> r.plugin, err |-> r.err,
                  ops |-> <<[op |-> "parse_key"], [op |-> "lookup", key |-> key],
                            [op |-> "construct", entry |-> plugins[key],
                             key |-> plugin_key, section |-> section]>>]

\* a `type` that is not a string is taken as the empty string
decode_type_lenient(section) ==
    IF section.shape \in {"table", "typenotstring"}
    THEN [some |-> TRUE, value |-> section.type]
    ELSE [some |-> FALSE, value |-> <<>>]

\* toml::decode of the section as a table, then of its `type` as a string
decode_type(section) ==
    IF section.shape = "table"
    THEN [some |-> TRUE, value |-> section.type]
    ELSE [some |-> FALSE, value |-> <<>>]

\* load_section: decode the plugin type, then load_instance
load_section(plugins, section) ==
    LET plugin_type == decode_type(section)
    IN  IF ~plugin_type.some
        THEN Failure(<<[kind |-> "TomlDecode"]>>, <<[op |-> "decode"]>>)
        ELSE LET r == load_instance(plugins, plugin_type.value, section)
             IN  [r EXCEPT !.ops = <<[op |-> "decode"]>> \o r.ops]

\* the context replaces the error it should wrap
chain_err_replace(context, e) == <<context>>

\* chain_err: wrap an error chain in one more context
chain_err(context, e) == <<context>> \o e

\* tag the events of one section with the file and the section they belong to
Tagged(ops, f, s) ==
    [i \in 1..Len(ops) |-> [ev |-> ops[i], file |-> f, sec |-> s]]

\* ------------------------------------------------------------------- Init
\* the state at the entry of main, for a command line that names one of `configs`
InitWith(configs) ==
    /\ opts \in {"err", "help", "ok"}
    /\ files \in configs
    /\ pc = "parse_opts"
    /\ fileIdx = 0
    /\ secIdx = 0
    /\ instances = <<>>
    /\ loaded = <<>>
    /\ setupIdx = 0
    /\ bound = <<>>
    /\ err = <<>>
    /\ exitStatus = -1
    /\ log = <<>>
    /\ loop = [t \in Tasks |-> "none"]
    /\ round = [t \in Tasks |-> 0]
    /\ pool = {}
    /\ report = [t \in Tasks |-> <<>>]

Init == InitWith(ConfigLists)

\* ------------------------------------------------------- run: the options
\* opts.parse fails: usage is printed and run returns the message
ParseOptsErr ==
    /\ pc = "parse_opts"
    /\ opts = "err"
    /\ err' = <<[kind |-> "Message"]>>
    /\ log' = Append(log, [ev |-> [op |-> "usage"], file |-> 0, sec |-> 0])
    /\ pc' = "main_err"
    /\ UNCHANGED <<opts, files, startupVars, exitStatus, schedVars>>

\* -h: usage is printed and run returns Ok
ParseOptsHelp ==
    /\ pc = "parse_opts"
    /\ opts = "help"
    /\ log' = Append(log, [ev |-> [op |-> "usage"], file |-> 0, sec |-> 0])
    /\ pc' = "main_ok"
    /\ UNCHANGED <<opts, files, startupVars, err, exitStatus, schedVars>>

ParseOptsOk ==
    /\ pc = "parse_opts"
    /\ opts = "ok"
    /\ pc' = "logger"
    /\ UNCHANGED <<opts, files, startupVars, err, exitStatus, log, schedVars>>

\* logger::init(level)?, then the start of load_configs
LoggerInit ==
    /\ pc = "logger"
    /\ \E ok \in BOOLEAN :
          IF ok
          THEN /\ pc' = "load_configs"
               /\ fileIdx' = 1
               /\ loaded' = <<>>
               /\ err' = err
          ELSE /\ pc' = "main_err"
               /\ err' = <<[kind |-> "Logger"]>>
               /\ UNCHANGED <<fileIdx, loaded>>
    /\ UNCHANGED <<opts, files, secIdx, instances, setupIdx, bound, exitStatus,
                   log, schedVars>>

\* ------------------------------------------- load_configs and load_config
Event(e, f, s) == [ev |-> e, file |-> f, sec |-> s]

\* a file that fails to load is recorded and the loop moves on to the next file
OpenConfigSkip ==
    /\ pc = "load_configs"
    /\ fileIdx <= Len(files)
    /\ LET file == files[fileIdx]
           path == Paths[fileIdx]
           opened == Append(log, Event([op |-> "loading", path |-> path], fileIdx, 0))
       IN  IF file.state = "ok"
           THEN /\ pc' = "load_config"
                /\ instances' = <<>>
                /\ secIdx' = 1
                /\ err' = err
                /\ log' = opened
                /\ fileIdx' = fileIdx
           ELSE /\ pc' = pc
                /\ err' = IF err # <<>> THEN err
                          ELSE chain_err([kind |-> "Config", path |-> path],
                                    <<[kind |-> IF file.state = "noparse"
                                                THEN "TomlParse" ELSE "Io"]>>)
                /\ log' = opened
                /\ fileIdx' = fileIdx + 1
                /\ UNCHANGED <<instances, secIdx>>
    /\ UNCHANGED <<opts, files, loaded, setupIdx, bound, exitStatus, schedVars>>

\* load_configs: one iteration of `for config in configs` up to the point
\* where load_config has opened, read and parsed the file
OpenConfig ==
    /\ pc = "load_configs"
    /\ fileIdx <= Len(files)
    /\ LET file == files[fileIdx]
           path == Paths[fileIdx]
           opened == Append(log, Event([op |-> "loading", path |-> path], fileIdx, 0))
       IN  IF file.state = "ok"
           THEN /\ pc' = "load_config"
                /\ instances' = <<>>
                /\ secIdx' = 1
                /\ err' = err
                /\ log' = opened
           ELSE /\ pc' = "main_err"
                /\ err' = chain_err([kind |-> "Config", path |-> path],
                                    <<[kind |-> IF file.state = "noparse"
                                                THEN "TomlParse" ELSE "Io"]>>)
                /\ log' = opened
                /\ UNCHANGED <<instances, secIdx>>
    /\ UNCHANGED <<opts, files, fileIdx, loaded, setupIdx, bound, exitStatus,
                   schedVars>>

\* a section that fails to load is recorded and the loop moves on
LoadSectionKeepGoing ==
    /\ pc = "load_config"
    /\ secIdx <= Len(files[fileIdx].sections)
    /\ LET section == files[fileIdx].sections[secIdx]
           section_key == SectionKeys[secIdx]
           r == load_section(PluginRegistry, section)
       IN  /\ log' = log \o Tagged(r.ops, fileIdx, secIdx)
           /\ secIdx' = secIdx + 1
           /\ pc' = pc
           /\ IF r.ok
              THEN /\ instances' = Append(instances, r.plugin)
                   /\ err' = err
              ELSE /\ err' = IF err # <<>> THEN err
                             ELSE chain_err([kind |-> "Config", path |-> Paths[fileIdx]],
                                   chain_err([kind |-> "ConfigSection", key |-> section_key],
                                             r.err))
                   /\ instances' = instances
    /\ UNCHANGED <<opts, files, fileIdx, loaded, setupIdx, bound, exitStatus,
                   schedVars>>

\* load_config: one iteration of `for (section_key, section) in config`
LoadSection ==
    /\ pc = "load_config"
    /\ secIdx <= Len(files[fileIdx].sections)
    /\ LET section == files[fileIdx].sections[secIdx]
           section_key == SectionKeys[secIdx]
           r == load_section(PluginRegistry, section)
       IN  /\ log' = log \o Tagged(r.ops, fileIdx, secIdx)
           /\ IF r.ok
              THEN /\ instances' = Append(instances, r.plugin)
                   /\ secIdx' = secIdx + 1
                   /\ UNCHANGED <<pc, err>>
              ELSE /\ pc' = "main_err"
                   /\ err' = chain_err([kind |-> "Config", path |-> Paths[fileIdx]],
                                chain_err([kind |-> "ConfigSection", key |-> section_key],
                                          r.err))
                   /\ UNCHANGED <<instances, secIdx>>
    /\ UNCHANGED <<opts, files, fileIdx, loaded, setupIdx, bound, exitStatus,
                   schedVars>>

\* `loaded` is overwritten with the plugins of the file instead of extended
ConfigLoadedReplaces ==
    /\ pc = "load_config"
    /\ secIdx > Len(files[fileIdx].sections)
    /\ loaded' = instances
    /\ fileIdx' = fileIdx + 1
    /\ pc' = "load_configs"
    /\ UNCHANGED <<opts, files, secIdx, instances, setupIdx, bound, err,
                   exitStatus, log, schedVars>>

\* load_config returns Ok(instances); load_configs extends `loaded` with it
ConfigLoaded ==
    /\ pc = "load_config"
    /\ secIdx > Len(files[fileIdx].sections)
    /\ loaded' = loaded \o instances
    /\ fileIdx' = fileIdx + 1
    /\ pc' = "load_configs"
    /\ UNCHANGED <<opts, files, secIdx, instances, setupIdx, bound, err,
                   exitStatus, log, schedVars>>

\* the loop over the files stops one file short
ConfigsLoadedEarly ==
    /\ pc = "load_configs"
    /\ fileIdx >= Len(files)
    /\ pc' = "setup"
    /\ setupIdx' = 1
    /\ bound' = <<>>
    /\ UNCHANGED <<opts, files, fileIdx, secIdx, instances, loaded, err,
                   exitStatus, log, schedVars>>

\* load_configs returns Ok(loaded); run builds the pool and the framework
ConfigsLoaded ==
    /\ pc = "load_configs"
    /\ fileIdx > Len(files)
    /\ pc' = "setup"
    /\ setupIdx' = 1
    /\ bound' = <<>>
    /\ UNCHANGED <<opts, files, fileIdx, secIdx, instances, loaded, err,
                   exitStatus, log, schedVars>>

\* ----------------------------------------------------------- run: setup
\* a failed setup is recorded but the loop carries on with the next plugin
SetupKeepGoing ==
    /\ pc = "setup"
    /\ setupIdx <= Len(loaded)
    /\ log' = Append(log, Event([op |-> "setup", plugin |-> setupIdx], 0, 0))
    /\ \E ok \in BOOLEAN :
          IF ok
          THEN /\ bound' = Append(bound, [plugin |-> loaded[setupIdx]])
               /\ err' = err
          ELSE /\ err' = <<[kind |-> "Setup"]>>
               /\ bound' = bound
    /\ setupIdx' = setupIdx + 1
    /\ UNCHANGED <<opts, files, pc, fileIdx, secIdx, instances, loaded, exitStatus,
                   schedVars>>

\* one iteration of `for plugin in loaded`: plugin.setup(&framework)?
Setup ==
    /\ pc = "setup"
    /\ setupIdx <= Len(loaded)
    /\ log' = Append(log, Event([op |-> "setup", plugin |-> setupIdx], 0, 0))
    /\ \E ok \in BOOLEAN :
          IF ok
          THEN /\ bound' = Append(bound, [plugin |-> loaded[setupIdx]])
               /\ setupIdx' = setupIdx + 1
               /\ UNCHANGED <<pc, err>>
          ELSE /\ pc' = "main_err"
               /\ err' = <<[kind |-> "Setup"]>>
               /\ UNCHANGED <<bound, setupIdx>>
    /\ UNCHANGED <<opts, files, fileIdx, secIdx, instances, loaded, exitStatus,
                   schedVars>>

\* the loop over `loaded` stops one plugin short
SetupDoneEarly ==
    /\ pc = "setup"
    /\ setupIdx >= Len(loaded)
    /\ pc' = "schedule_polling"
    /\ UNCHANGED <<opts, files, startupVars, err, exitStatus, log, schedVars>>

\* every plugin is set up: run goes on to create the loops
SetupDone ==
    /\ pc = "setup"
    /\ setupIdx > Len(loaded)
    /\ pc' = "schedule_polling"
    /\ UNCHANGED <<opts, files, startupVars, err, exitStatus, log, schedVars>>

\* ------------------------------------------------- run: the two loops
\* schedule(timer, duration, task): the loop of `task`, armed for its first tick
schedule(task) == [loop EXCEPT ![task] = "armed"]

SchedulePolling ==
    /\ pc = "schedule_polling"
    /\ loop' = schedule("Poller")
    /\ log' = Append(log, Event([op |-> "schedule", task |-> "Poller"], 0, 0))
    /\ pc' = "schedule_updating"
    /\ UNCHANGED <<opts, files, startupVars, err, exitStatus, round, pool, report>>

ScheduleUpdating ==
    /\ pc = "schedule_updating"
    /\ loop' = schedule("Updater")
    /\ log' = Append(log, Event([op |-> "schedule", task |-> "Updater"], 0, 0))
    /\ pc' = "started"
    /\ UNCHANGED <<opts, files, startupVars, err, exitStatus, round, pool, report>>

\* info!("Started!")
LogStarted ==
    /\ pc = "started"
    /\ log' = Append(log, Event([op |-> "info", msg |-> "Started!"], 0, 0))
    /\ pc' = "shutting_down"
    /\ UNCHANGED <<opts, files, startupVars, err, exitStatus, schedVars>>

\* info!("Shutting down!")
LogShuttingDown ==
    /\ pc = "shutting_down"
    /\ log' = Append(log, Event([op |-> "info", msg |-> "Shutting down!"], 0, 0))
    /\ pc' = "join"
    /\ UNCHANGED <<opts, files, startupVars, err, exitStatus, schedVars>>

\* the wait on the loops starts before "Shutting down!" is logged
WaitBeforeShuttingDown ==
    /\ pc = "shutting_down"
    /\ log' = Append(log, Event([op |-> "wait"], 0, 0))
    /\ pc' = "waiting"
    /\ UNCHANGED <<opts, files, startupVars, err, exitStatus, schedVars>>

\* future::join_all(vec![polling, updating]).wait(): the main thread starts
\* driving the two loops and blocks
Wait ==
    /\ pc = "join"
    /\ log' = Append(log, Event([op |-> "wait"], 0, 0))
    /\ pc' = "waiting"
    /\ UNCHANGED <<opts, files, startupVars, err, exitStatus, schedVars>>

\* ------------------------------------------------------------------- main
\* the error is printed but the process exits with 0
MainErrExitsZero ==
    /\ pc = "main_err"
    /\ exitStatus' = 0
    /\ pc' = "exited"
    /\ UNCHANGED <<opts, files, startupVars, err, log, schedVars>>

\* run() returned Err(e): the chain is printed and the process exits with 1
MainErr ==
    /\ pc = "main_err"
    /\ exitStatus' = 1
    /\ pc' = "exited"
    /\ UNCHANGED <<opts, files, startupVars, err, log, schedVars>>

\* run() returned Ok: the process exits with 0
MainOk ==
    /\ pc = "main_ok"
    /\ exitStatus' = 0
    /\ pc' = "exited"
    /\ UNCHANGED <<opts, files, startupVars, err, log, schedVars>>

\* ------------------------------------------- scheduler, tasks, worker pool
\* the tasks are handed only the first bound instance
InstancesFirstOnly == IF bound = <<>> THEN {} ELSE {1}

\* the tasks are handed a collection that lacks the last bound instance
InstancesButLast == 1..(Len(bound) - 1)

\* the instances shared by the Poller and the Updater: Arc::new(instances)
Instances == 1..Len(bound)

UnitsOf(t) == { u \in pool : u.task = t }

Running == { u \in pool : u.state = "running" }

Done(u) == u.state \in {"ok", "failed"}

\* run-once of a task: one unit of work per bound instance, tagged with the round
Submissions(t, n) ==
    { [task |-> t, inst |-> i, round |-> n, state |-> "queued"] : i \in Instances }

\* the loop fires on every tick of its timer, whether or not the round is over
MayFireEveryTick(t) == pc = "waiting" /\ loop[t] # "none"

\* the loop of task t may fire: it is armed and being driven
MayFire(t) == pc = "waiting" /\ loop[t] = "armed"

\* the timer of task t elapses: the scheduler fires the task's run-once
Tick(t) ==
    /\ MayFire(t)
    /\ round[t] < MaxRounds
    /\ round' = [round EXCEPT ![t] = round[t] + 1]
    /\ pool' = pool \cup Submissions(t, round[t] + 1)
    /\ loop' = [loop EXCEPT ![t] = "firing"]
    /\ report' = [report EXCEPT ![t] = <<>>]
    /\ UNCHANGED <<opts, files, pc, startupVars, err, exitStatus, log>>

\* a free worker of the pool picks a queued unit up
WorkerStart(u) ==
    /\ pc # "exited"
    /\ u.state = "queued"
    /\ Cardinality(Running) < PoolSize
    /\ pool' = (pool \ {u}) \cup {[u EXCEPT !.state = "running"]}
    /\ UNCHANGED <<opts, files, pc, startupVars, err, exitStatus, log, loop,
                   round, report>>

\* the poll (or update) of one instance returns Ok or Err
WorkerFinish(u, ok) ==
    /\ pc # "exited"
    /\ u.state = "running"
    /\ pool' = (pool \ {u}) \cup {[u EXCEPT !.state = IF ok THEN "ok" ELSE "failed"]}
    /\ UNCHANGED <<opts, files, pc, startupVars, err, exitStatus, log, loop,
                   round, report>>

\* the round ends with the first failure, as a plain join_all would
RoundDoneFirstFailure(t) ==
    \/ \A u \in UnitsOf(t) : Done(u)
    \/ \E u \in UnitsOf(t) : u.state = "failed"

\* the round of task t is complete: every unit it submitted has a result
RoundDone(t) == \A u \in UnitsOf(t) : Done(u)

\* the per-instance results of a round
Results(units) ==
    [i \in { u.inst : u \in units } |->
        (CHOOSE u \in units : u.inst = i).state]

\* a round in which an instance failed ends the loop instead of re-arming it
RoundCompleteStopsOnError(t) ==
    /\ pc = "waiting"
    /\ loop[t] = "firing"
    /\ RoundDone(t)
    /\ report' = [report EXCEPT ![t] = Results(UnitsOf(t))]
    /\ pool' = pool \ UnitsOf(t)
    /\ loop' = [loop EXCEPT ![t] =
                    IF \E u \in UnitsOf(t) : u.state = "failed" THEN "none" ELSE "armed"]
    /\ UNCHANGED <<opts, files, pc, startupVars, err, exitStatus, log, round>>

\* the round reports its results and the scheduler re-arms the timer
RoundComplete(t) ==
    /\ pc = "waiting"
    /\ loop[t] = "firing"
    /\ RoundDone(t)
    /\ report' = [report EXCEPT ![t] = Results(UnitsOf(t))]
    /\ pool' = pool \ UnitsOf(t)
    /\ loop' = [loop EXCEPT ![t] = "armed"]
    /\ UNCHANGED <<opts, files, pc, startupVars, err, exitStatus, log, round>>

\* the timer of task t fails while the loop is armed: the loop ends with an
\* error, join_all resolves with it at once without waiting for the other
\* loop, wait() returns, the result is discarded and run returns Ok(())
LoopFails(t) ==
    /\ pc = "waiting"
    /\ loop[t] = "armed"
    /\ loop' = [loop EXCEPT ![t] = "failed"]
    /\ log' = Append(log, Event([op |-> "join_returned", task |-> t], 0, 0))
    /\ pc' = "main_ok"
    /\ UNCHANGED <<opts, files, startupVars, err, exitStatus, round, pool, report>>

\* ------------------------------------------------------------ behaviours
Next ==
    \/ ParseOptsErr
    \/ ParseOptsHelp
    \/ ParseOptsOk
    \/ LoggerInit
    \/ OpenConfig
    \/ LoadSection
    \/ ConfigLoaded
    \/ ConfigsLoaded
    \/ Setup
    \/ SetupDone
    \/ SchedulePolling
    \/ ScheduleUpdating
    \/ LogStarted
    \/ LogShuttingDown
    \/ Wait
    \/ MainErr
    \/ MainOk
    \/ \E t \in Tasks : Tick(t)
    \/ \E u \in pool : WorkerStart(u)
    \/ \E u \in pool, ok \in BOOLEAN : WorkerFinish(u, ok)
    \/ \E t \in Tasks : RoundComplete(t)
    \/ \E t \in Tasks : LoopFails(t)

Spec == Init /\ [][Next]_vars

\* the timers elapse, the workers of the pool make progress and the main
\* thread, blocked in wait(), keeps driving the two loops
Fairness ==
    /\ \A t \in Tasks : WF_vars(Tick(t))
    /\ \A t \in Tasks : WF_vars(RoundComplete(t))
    /\ WF_vars(\E u \in pool : WorkerStart(u))
    /\ WF_vars(\E u \in pool, ok \in BOOLEAN : WorkerFinish(u, ok))

LiveInit == InitWith(LiveConfigs)

FairSpec == LiveInit /\ [][Next]_vars /\ Fairness

PoolInit == InitWith(PoolConfigs)

PoolSpec == PoolInit /\ [][Next]_vars

TypeOK ==
    /\ pc \in {"parse_opts", "logger", "load_configs", "load_config", "setup",
               "schedule_polling", "schedule_updating", "started",
               "shutting_down", "join", "waiting", "main_err", "main_ok", "exited"}
    /\ exitStatus \in {-1, 0, 1}
    /\ \A t \in Tasks : loop[t] \in {"none", "armed", "firing", "failed"} /\ round[t] \in 0..MaxRounds

\* ------------------------------------------------------------ properties
\* positions of the log that hold an event `op` of section s of file f
OpsAt(f, s, op) ==
    { i \in DOMAIN log : log[i].file = f /\ log[i].sec = s /\ log[i].ev.op = op }

\* positions of the log that hold an event `op`
OpsOf(op) == { i \in DOMAIN log : log[i].ev.op = op }

\* the number of instances the driver bound
M == Len(bound)

\* C1: for each task the rounds never overlap: the units of work of a task
\* that are in flight all belong to its current round, exist only while that
\* round is firing, and a new round is fired only when no unit of the
\* previous round is left unobserved.
C1_RoundsNeverOverlap ==
    /\ [](\A t \in Tasks :
            /\ \A u \in UnitsOf(t) : u.round = round[t]
            /\ UnitsOf(t) # {} => loop[t] = "firing")
    /\ [][\A t \in Tasks :
            round'[t] # round[t] =>
                /\ round'[t] = round[t] + 1
                /\ loop[t] = "armed"
                /\ UnitsOf(t) = {}]_vars

C1_Witness ==
    \E t \in Tasks : round[t] = 2 /\ \E u \in UnitsOf(t) : u.state = "running"

\* C2: when a round of a task completes, every bound instance has a result,
\* success or failure, and the round reports for each instance exactly the
\* result its operation returned: a failure of one instance neither stops
\* the others from completing nor hides their successes.
C2_FailureDoesNotHideOthers ==
    [][\A t \in Tasks :
        (loop[t] = "firing" /\ loop'[t] = "armed") =>
            \A i \in 1..M :
                \E u \in UnitsOf(t) :
                    /\ u.inst = i
                    /\ Done(u)
                    /\ i \in DOMAIN report'[t]
                    /\ report'[t][i] = u.state]_vars

C2_Witness ==
    \E t \in Tasks :
        /\ M = 2
        /\ DOMAIN report[t] = 1..2
        /\ report[t][1] = "ok"
        /\ report[t][2] = "failed"
        /\ bound[1].plugin.key.plugin_type = "cpu"
        /\ bound[2].plugin.key.plugin_type = "memory"

\* C3: a round submits exactly M units of work, one per bound instance, and
\* is reported complete only when all M have a result.
C3_ExactlyMUnits ==
    /\ [](\A t \in Tasks :
            loop[t] = "firing" =>
                /\ Cardinality(UnitsOf(t)) = M
                /\ { u.inst : u \in UnitsOf(t) } = 1..M)
    /\ [][\A t \in Tasks :
            /\ round'[t] # round[t] =>
                  { u \in pool' : u.task = t } =
                      { [task |-> t, inst |-> i, round |-> round'[t],
                         state |-> "queued"] : i \in 1..M }
            /\ (loop[t] = "firing" /\ loop'[t] = "armed") =>
                  /\ Cardinality({ u \in UnitsOf(t) : Done(u) }) = M
                  /\ DOMAIN report'[t] = 1..M]_vars

C3_Witness ==
    \E t \in Tasks :
        M = 2 /\ round[t] = 1 /\ loop[t] = "armed" /\ DOMAIN report[t] = 1..2

\* C4: whenever load_instance got a key that parses, it called the
\* constructor registered under that key, once, with that key and that
\* section, if the key is registered; and called no constructor and failed
\* with MissingPlugin carrying that key if it is not.
C4_LookupOrMissingPlugin ==
    \A f \in 1..Len(files) : \A s \in 1..Len(files[f].sections) :
        OpsAt(f, s, "lookup") # {} =>
            LET section == files[f].sections[s]
                k == [plugin_kind |-> "Sensor", plugin_type |-> section.type[3]]
                calls == OpsAt(f, s, "construct")
            IN  IF k.plugin_type \in {"cpu", "memory"}
                THEN /\ Cardinality(calls) = 1
                     /\ \A i \in calls :
                           /\ log[i].ev.entry =
                                 (IF k.plugin_type = "cpu" THEN "cpu_entry"
                                                            ELSE "memory_entry")
                           /\ log[i].ev.key = k
                           /\ log[i].ev.section = section
                ELSE /\ calls = {}
                     /\ Len(err) = 3
                     /\ err[3] = [kind |-> "MissingPlugin", key |-> k]

C4_Witness ==
    /\ Len(files) = 1
    /\ OpsAt(1, 1, "construct") # {}
    /\ OpsAt(1, 2, "lookup") # {}
    /\ OpsAt(1, 2, "construct") = {}
    /\ Len(err) = 3
    /\ err[3].kind = "MissingPlugin"

\* C5: once a startup step has failed, no loop is ever created, no round is
\* ever fired and no poll or update is ever submitted.
C5_NoLoopAfterStartupFailure ==
    err # <<>> =>
        /\ \A t \in Tasks : loop[t] = "none" /\ round[t] = 0
        /\ pool = {}
        /\ OpsOf("schedule") = {}
        /\ OpsOf("wait") = {}

C5_Witness ==
    /\ pc = "exited"
    /\ err = <<[kind |-> "Setup"]>>
    /\ Len(bound) = 1
    /\ Len(loaded) = 2

\* a section from which a plugin can be constructed
SectionValid(x) ==
    /\ x.shape = "table"
    /\ x.type \in { <<"sensor", ":", "cpu">>, <<"sensor", ":", "memory">> }
    /\ x.fieldsOk

\* a file that load_config can load
FileValid(file) ==
    /\ file.state = "ok"
    /\ \A s \in 1..Len(file.sections) : SectionValid(file.sections[s])

FirstInvalidSection(ss) ==
    CHOOSE i \in 1..Len(ss) :
        ~SectionValid(ss[i]) /\ \A j \in 1..(i - 1) : SectionValid(ss[j])

FirstInvalidFile ==
    CHOOSE f \in 1..Len(files) :
        ~FileValid(files[f]) /\ \A g \in 1..(f - 1) : FileValid(files[g])

\* C6: when load_config fails on a section, the section context of the error
\* names the first invalid section of the file, every section before it was
\* constructed, and no section after it was decoded, looked up or constructed.
C6_FailFastPerSection ==
    (Len(err) >= 2 /\ err[2].kind = "ConfigSection") =>
        LET ss == files[fileIdx].sections
            i == FirstInvalidSection(ss)
        IN  /\ fileIdx \in 1..Len(files)
            /\ \E j \in 1..Len(ss) : ~SectionValid(ss[j])
            /\ err[1] = [kind |-> "Config", path |-> Paths[fileIdx]]
            /\ err[2] = [kind |-> "ConfigSection", key |-> SectionKeys[i]]
            /\ OpsAt(fileIdx, i, "decode") # {}
            /\ Len(instances) = i - 1
            /\ { j \in DOMAIN log : log[j].file = fileIdx /\ log[j].sec > i } = {}

C6_Witness ==
    /\ Len(files) = 1
    /\ Len(files[1].sections) = 2
    /\ ~SectionValid(files[1].sections[1])
    /\ pc = "exited"
    /\ Len(err) = 3
    /\ err[2] = [kind |-> "ConfigSection", key |-> "alpha"]

\* C7 as stated: when a file fails to load, every file given is still
\* attempted.
C7_EveryFileAttempted ==
    (pc = "exited" /\ err # <<>> /\ err[1].kind = "Config") =>
        \A f \in 1..Len(files) : OpsAt(f, 0, "loading") # {}

\* C7, amended: when a file fails to load, the error is tagged with the path
\* of that file, which is the first file that cannot be loaded; the files
\* before it were attempted and no file after it is.
C7_FailFastPerFile ==
    (err # <<>> /\ err[1].kind = "Config") =>
        /\ \E f \in 1..Len(files) : ~FileValid(files[f])
        /\ fileIdx = FirstInvalidFile
        /\ err[1].path = Paths[FirstInvalidFile]
        /\ \A g \in 1..Len(files) :
              OpsAt(g, 0, "loading") # {} <=> g <= FirstInvalidFile
        /\ { j \in DOMAIN log : log[j].file > FirstInvalidFile } = {}

C7_Witness ==
    /\ Len(files) = 2
    /\ files[1].state = "noparse"
    /\ files[2].state = "ok"
    /\ pc = "exited"
    /\ err = <<[kind |-> "Config", path |-> "a.toml"], [kind |-> "TomlParse"]>>
    /\ OpsAt(2, 0, "loading") = {}

\* C8: a section that is not a table, has no `type` or whose `type` is not a
\* string makes load_section return the decode error: the key is not parsed,
\* the registry is not consulted, no constructor is called, and run returns
\* the error.
C8_DecodeErrorIsReturned ==
    \A f \in 1..Len(files) : \A s \in 1..Len(files[f].sections) :
        (OpsAt(f, s, "decode") # {} /\ files[f].sections[s].shape # "table") =>
            /\ OpsAt(f, s, "parse_key") = {}
            /\ OpsAt(f, s, "lookup") = {}
            /\ OpsAt(f, s, "construct") = {}
            /\ err = <<[kind |-> "Config", path |-> Paths[f]],
                       [kind |-> "ConfigSection", key |-> SectionKeys[s]],
                       [kind |-> "TomlDecode"]>>
            /\ pc \in {"main_err", "exited"}
            /\ exitStatus # 0

C8_Witness ==
    /\ Len(files) = 1
    /\ Len(files[1].sections) = 2
    /\ files[1].sections[2].shape = "notype"
    /\ OpsAt(1, 2, "decode") # {}
    /\ Len(err) = 3
    /\ err[3].kind = "TomlDecode"
    /\ pc = "exited"

\* C9: once a loop has been created, setup has been called exactly once for
\* every constructed plugin, and every call precedes the creation of either
\* loop and the wait that drives them.
C9_SetupOncePerPluginBeforeScheduling ==
    (\E t \in Tasks : loop[t] # "none" \/ round[t] > 0 \/ UnitsOf(t) # {}) =>
        /\ OpsOf("schedule") # {}
        /\ Cardinality(OpsOf("construct")) = Len(loaded)
        /\ Cardinality(OpsOf("setup")) = Len(loaded)
        /\ \A j \in 1..Len(loaded) :
              Cardinality({ i \in OpsOf("setup") : log[i].ev.plugin = j }) = 1
        /\ Len(bound) = Len(loaded)
        /\ \A i \in OpsOf("setup") :
              \A k \in OpsOf("schedule") \cup OpsOf("wait") : i < k

C9_Witness ==
    /\ Len(loaded) = 2
    /\ Cardinality(OpsOf("setup")) = 2
    /\ \E t \in Tasks : round[t] = 1

\* C10 as stated: a failed startup never exits with 0, and the exit status
\* is 0 only after a startup that succeeded.
C10_ZeroOnlyAfterStartup ==
    /\ (pc = "exited" /\ err # <<>>) => exitStatus # 0
    /\ exitStatus = 0 => (OpsOf("schedule") # {} /\ OpsOf("wait") # {})

\* C10, amended: a failed startup exits with 1, never with 0; the exit
\* status is 0 only when run returned no error, which is the case when help
\* was asked for (nothing is loaded or started) or when the wait on the two
\* loops of a successful startup has returned.
C10_ExitStatus ==
    /\ (pc = "exited" /\ err # <<>>) => exitStatus = 1
    /\ exitStatus = 1 => err # <<>>
    /\ exitStatus = 0 =>
          /\ err = <<>>
          /\ \/ opts = "help" /\ OpsOf("loading") = {} /\ OpsOf("schedule") = {}
             \/ OpsOf("wait") # {}

C10_Witness ==
    /\ pc = "exited"
    /\ exitStatus = 1
    /\ Len(err) = 3
    /\ err[Len(err)] = [kind |-> "MissingPlugin",
                        key |-> [plugin_kind |-> "Sensor", plugin_type |-> "disk"]]

\* C11: while exactly one operation is executing on the pool and does not
\* return, the loop of the other task can still fire its next tick, every
\* instance of the blocked operation's round has been submitted, every other
\* queued operation can be picked up by a worker and every other result can
\* still be reported.
C11_BlockedOperationDelaysNobody ==
    \A u \in pool :
        (pc = "waiting" /\ Running = {u}) =>
            /\ \A t \in Tasks \ {u.task} :
                  (loop[t] = "armed" /\ round[t] < MaxRounds) => ENABLED Tick(t)
            /\ \A t \in Tasks \ {u.task} :
                  (loop[t] = "firing" /\ \A v \in UnitsOf(t) : Done(v)) =>
                      ENABLED RoundComplete(t)
            /\ { v.inst : v \in UnitsOf(u.task) } = 1..M
            /\ \A v \in pool \ {u} : v.state = "queued" => ENABLED WorkerStart(v)

C11_Witness ==
    /\ pc = "waiting"
    /\ M = 2
    /\ \E u \in pool :
          /\ Running = {u}
          /\ u.task = "Poller"
          /\ u.round = 1
          /\ \E v \in pool : v.task = "Poller" /\ v.inst # u.inst /\ v.state = "ok"
    /\ round["Updater"] = 2
    /\ loop["Updater"] = "armed"
    /\ DOMAIN report["Updater"] = 1..2

\* C12: once a loop exists the bound collection never changes; it holds the
\* plugins that were constructed, in order; and what either task submits in
\* a round and reports for it ranges over exactly that collection.
C12_BoundCollectionFixed ==
    /\ [][(\E t \in Tasks : loop[t] # "none") => bound' = bound]_vars
    /\ []((\E t \in Tasks : loop[t] # "none") =>
            /\ bound = [i \in 1..Len(loaded) |-> [plugin |-> loaded[i]]]
            /\ \A t \in Tasks :
                  /\ { u.inst : u \in UnitsOf(t) } \subseteq DOMAIN bound
                  /\ loop[t] = "firing" => { u.inst : u \in UnitsOf(t) } = DOMAIN bound
                  /\ (loop[t] = "armed" /\ round[t] > 0) => DOMAIN report[t] = DOMAIN bound)

C12_Witness ==
    /\ Len(bound) = 2
    /\ loop["Poller"] = "firing"
    /\ loop["Updater"] = "armed"
    /\ round["Updater"] = 2
    /\ \E u \in UnitsOf("Poller") : u.inst = 2 /\ u.state = "failed"

\* C13: while the main thread is driving the loops, every round of a task is
\* followed by a further round of that task, whatever the round reported,
\* unless a timer failure has made wait() return; a round that reports a
\* failure leaves the loop armed.
C13_LoopNeverEnds ==
    /\ \A t \in Tasks : \A n \in 0..(MaxRounds - 1) :
          (pc = "waiting" /\ round[t] = n) ~> (round[t] = n + 1 \/ pc # "waiting")
    /\ [][\A t \in Tasks :
            (loop[t] = "firing" /\ loop'[t] # "firing") => loop'[t] = "armed"]_vars

C13_Witness ==
    \E t \in Tasks :
        /\ pc = "waiting"
        /\ round[t] = 2
        /\ loop[t] = "armed"
        /\ \E i \in DOMAIN report[t] : report[t][i] = "failed"

\* C14: run does not return, and the process does not exit, while a loop it
\* started is still armed or firing.
C14_RunWaitsForBothLoops ==
    (OpsOf("wait") # {} /\ pc \in {"main_ok", "exited"}) =>
        \A t \in Tasks : loop[t] \notin {"armed", "firing"}

\* C15: the pool has 4 workers whatever the number of plugins: at most 4
\* operations, polls and updates together, execute at the same time, and
\* the submissions beyond that stay queued in the pool.
C15_AtMostFourExecuting ==
    /\ Cardinality(Running) <= 4
    /\ \A t \in Tasks : loop[t] = "firing" => Cardinality(UnitsOf(t)) = M

C15_Witness ==
    /\ M = PoolInstances
    /\ Cardinality(Running) = 4
    /\ Cardinality({ u \in pool : u.state = "queued" }) = 2

\* the root cause load_section reports for a section that is not valid
RootCause(x) ==
    IF x.shape # "table" THEN "TomlDecode"
    ELSE IF Len(x.type) # 3 THEN "PluginKeyParse"
    ELSE IF x.type[3] \notin {"cpu", "memory"} THEN "MissingPlugin"
    ELSE "Construct"

\* C16: an error of load_configs is the path of the file being loaded, around
\* the key of the section being loaded when the failure is in a section,
\* around the root cause; a failure to open, read or parse the file has no
\* section context; an error from outside load_configs has no context.
C16_ErrorContextsNest ==
    /\ (err # <<>> /\ err[1].kind # "Config") => Len(err) = 1
    /\ (err # <<>> /\ err[1].kind = "Config") =>
          /\ fileIdx \in 1..Len(files)
          /\ err[1] = [kind |-> "Config", path |-> Paths[fileIdx]]
          /\ IF files[fileIdx].state # "ok"
             THEN /\ Len(err) = 2
                  /\ err[2].kind = (IF files[fileIdx].state = "noparse"
                                    THEN "TomlParse" ELSE "Io")
             ELSE /\ secIdx \in 1..Len(files[fileIdx].sections)
                  /\ Len(err) = 3
                  /\ err[2] = [kind |-> "ConfigSection", key |-> SectionKeys[secIdx]]
                  /\ err[3].kind = RootCause(files[fileIdx].sections[secIdx])
                  /\ ~SectionValid(files[fileIdx].sections[secIdx])
                  /\ \E i \in OpsAt(fileIdx, secIdx, "decode") :
                        \A j \in DOMAIN log : j > i =>
                            log[j].file = fileIdx /\ log[j].sec = secIdx

C16_Witness ==
    /\ Len(files) = 2
    /\ fileIdx = 2
    /\ Len(err) = 3
    /\ err[1] = [kind |-> "Config", path |-> "b.toml"]
    /\ err[2] = [kind |-> "ConfigSection", key |-> "alpha"]
    /\ err[3].kind = "Construct"
    /\ Len(loaded) = 1

\* is position i of the log the message msg
IsInfo(i, msg) == log[i].ev.op = "info" /\ log[i].ev.msg = msg

\* is position i of the log the creation of the loop of task t
IsSchedule(i, t) == log[i].ev.op = "schedule" /\ log[i].ev.task = t

\* C17: when the wait on the loops starts, the log ends with: Poller loop
\* created, Updater loop created, "Started!", "Shutting down!", wait, each
\* once; and "Shutting down!" is logged while both loops are armed, before
\* any round and before any loop has ended.
C17_ShuttingDownBeforeWait ==
    /\ \A w \in OpsOf("wait") :
          /\ w >= 5
          /\ IsSchedule(w - 4, "Poller")
          /\ IsSchedule(w - 3, "Updater")
          /\ IsInfo(w - 2, "Started!")
          /\ IsInfo(w - 1, "Shutting down!")
          /\ Cardinality(OpsOf("wait")) = 1
          /\ Cardinality(OpsOf("schedule")) = 2
          /\ Cardinality(OpsOf("info")) = 2
    /\ \A i \in OpsOf("join_returned") : \A w \in OpsOf("wait") : w < i
    /\ (pc \in {"join", "waiting"} /\ OpsOf("wait") = {}) =>
          /\ \E d \in OpsOf("info") : IsInfo(d, "Shutting down!") /\ d = Len(log)
          /\ \A t \in Tasks : loop[t] = "armed" /\ round[t] = 0

C17_Witness ==
    /\ pc = "waiting"
    /\ Len(log) >= 5
    /\ log[Len(log)].ev.op = "wait"
    /\ IsInfo(Len(log) - 1, "Shutting down!")
    /\ \A t \in Tasks : loop[t] = "armed" /\ round[t] = 0

\* C18: setup is first called when every file has been loaded and every
\* section of every file constructed; when the setup of plugin j fails, the
\* plugins 1..j-1 are bound, no plugin after j is set up, no loop is created
\* and run returns the error.
C18_PhasesOrderedFailFast ==
    /\ OpsOf("setup") # {} =>
          /\ \A f \in 1..Len(files) :
                /\ FileValid(files[f])
                /\ OpsAt(f, 0, "loading") # {}
                /\ \A x \in 1..Len(files[f].sections) : OpsAt(f, x, "construct") # {}
          /\ Len(loaded) = TotalSections(files)
          /\ \A i \in OpsOf("setup") :
                \A j \in OpsOf("loading") \cup OpsOf("decode") \cup OpsOf("construct") :
                    j < i
    /\ err = <<[kind |-> "Setup"]>> =>
          /\ { log[i].ev.plugin : i \in OpsOf("setup") } = 1..setupIdx
          /\ Cardinality(OpsOf("setup")) = setupIdx
          /\ Len(bound) = setupIdx - 1
          /\ setupIdx <= Len(loaded)
          /\ pc \in {"main_err", "exited"}
          /\ exitStatus # 0
          /\ OpsOf("schedule") = {}

C18_Witness ==
    /\ Len(files) = 2
    /\ Len(loaded) = 2
    /\ err = <<[kind |-> "Setup"]>>
    /\ setupIdx = 1
    /\ bound = <<>>
    /\ exitStatus = 1

\* the sections of all the files, file by file in the order given
RECURSIVE AllSections(_)
AllSections(fs) ==
    IF fs = <<>> THEN <<>> ELSE Head(fs).sections \o AllSections(Tail(fs))

\* C19: when load_configs has returned Ok, `loaded` holds one plugin per
\* section of the files, in the order of the files and of their sections,
\* each built by the constructor of its type; once the loops exist, the
\* bound collection has the same plugins in the same order, so M is the
\* total number of sections.
C19_OnePluginPerSectionInOrder ==
    /\ (setupIdx >= 1) =>
          /\ Len(loaded) = Len(AllSections(files))
          /\ \A k \in 1..Len(loaded) :
                /\ loaded[k].section = AllSections(files)[k]
                /\ loaded[k].key = [plugin_kind |-> "Sensor",
                                    plugin_type |-> AllSections(files)[k].type[3]]
                /\ loaded[k].entry = (IF AllSections(files)[k].type[3] = "cpu"
                                      THEN "cpu_entry" ELSE "memory_entry")
    /\ (OpsOf("schedule") # {}) =>
          /\ M = Len(AllSections(files))
          /\ \A k \in 1..M : bound[k].plugin.section = AllSections(files)[k]

C19_Witness ==
    /\ Len(files) = 2
    /\ Len(files[1].sections) = 1
    /\ OpsOf("wait") # {}
    /\ M = 2
    /\ bound[1].plugin.key.plugin_type = "memory"
    /\ bound[2].plugin.key.plugin_type = "cpu"

====
